---- MODULE Spec2Model ----
(***************************************************************************)
(* Model of plugin/core/sessions.py: create_session and the Session        *)
(* protocol state machine (initialize handshake, capability table,         *)
(* shutdown round trip), together with the channel (rpc.Client) it owns;   *)
(* and of the per-window session table (WindowManager) and the window      *)
(* registry (WindowRegistry) that multiplex sessions over open documents.  *)
(***************************************************************************)
EXTENDS Integers, Sequences, FiniteSets, TLC

(* ------------------------------------------------------------------ *)
(* Bounds and input domains                                            *)
(* ------------------------------------------------------------------ *)

\* how many times the owner may call Session.end()
MaxEndCalls == 2

\* how many window/showMessageRequest requests the server may send
MaxMessageRequests == 1

ConfigNames == {"test", "other"}

\* ClientConfig: binary_args is the launch command (empty = none),
\* tcp_port is modelled by its truthiness (a port is configured or not)
Configs ==
    [name : ConfigNames, binary_args : {<<>>, <<"server">>}, tcp_port : BOOLEAN]

CapNames == {"hoverProvider", "completionProvider"}

\* capability descriptors: the booleans and an (empty) option dictionary
CapValues == {"True", "False", "{}"}

EmptyDict == [k \in {} |-> "None"]

CapDicts == UNION {[S -> CapValues] : S \in SUBSET CapNames}

\* how many connections a window's table may start over its life
MaxConnections == 2

\* the one host window of the window model
Windows == {"w1"}

\* project folders a window may be switched between
ProjectPaths == {"/project", "/tmp"}

\* documents of a window: two have a file name, one has none and is
\* unsupported
Docs == {"a.test", "b.test", "untitled"}

\* the view has a file name (MockView(None) has none)
HasFileName(doc) == doc # "untitled"

\* MockConfigs.scope_config: the one known configuration applies to every
\* document that has a file name
DocConfigs(doc) == IF HasFileName(doc) THEN {"test"} ELSE {}

\* the actions a window/showMessageRequest may offer
ActionLists ==
    {<<>>, <<[title |-> "Retry"]>>, <<[title |-> "Yes"], [title |-> "No"]>>}

\* parameters of a window/showMessageRequest: with or without an 'actions' key
MessageRequestParams == {EmptyDict} \cup {[actions |-> a] : a \in ActionLists}

\* results of the initialize request: with or without a 'capabilities' key
InitializeResults == {EmptyDict} \cup {[capabilities |-> c] : c \in CapDicts}

(* ------------------------------------------------------------------ *)
(* State                                                               *)
(* ------------------------------------------------------------------ *)

VARIABLES
    config,            \* create_session argument: the ClientConfig
    bootstrap_client,  \* create_session argument: a pre-built client was given
    on_created,        \* create_session argument: an on_created callback was given
    on_ended,          \* create_session argument: an on_ended callback was given
    result,            \* what create_session returned: "not_called", "None", "Session"
    process,           \* the server process: "none", "running", "terminated"
    terminate_calls,   \* calls of process.terminate()
    endpoint,          \* start_tcp_transport: "not_tried", "connected", "failed"
    session_count,     \* Session objects constructed
    state,             \* Session.state
    capabilities,      \* Session.capabilities
    client,            \* Session.client: "Client" or "None"
    transport,         \* the transport the client wraps, "None" when it has none
    channel,           \* "open", or "closed" once the transport is closed
    handlers,          \* methods with a registered notification/request handler
    handlers_at_initialize, \* the handlers registered when initialize was sent
    sent,              \* methods of the requests sent on the channel, in order
    pending,           \* requests sent and not yet answered
    exit_calls,        \* calls of client.exit()
    init_outcome,      \* "none", "success", "error", "closed"
    init_response,     \* the result delivered with a successful initialize
    shutdown_outcome,  \* how the shutdown request was answered: "none", "success", "error"
    shutdown_results,  \* completed shutdown round trips (handler invocations)
    created_calls,     \* invocations of on_created: the session as the callback sees it
    ended_calls,       \* invocations of on_ended: the argument passed
    end_calls,         \* calls of Session.end()
    raised,            \* AttributeErrors raised by using an absent client
    message_requests,  \* the window/showMessageRequest requests received, by id
    responses,         \* the responses sent with client.send_response, in order
    registry,          \* WindowRegistry._windows: the windows that have a table
    window_valid,      \* window.is_valid()
    window_folder,     \* the window's current project path
    window_views,      \* the documents open in the window
    project_path,      \* WindowManager._project_path: the path last observed
    table,             \* WindowManager._sessions: configuration name -> connection id, 0 = none
    restarting,        \* a restart waits for the window's connections to end
    conns,             \* every connection started for the window, by id
    documents,         \* the document tracker's documents
    doc_sessions,      \* the document tracker's connections, by configuration name
    vetoed,            \* the configurations the dispatcher's on_start refuses
    on_start_calls,    \* the configurations on_start was asked about
    initialized,       \* the (configuration, connection) pairs given to on_initialized
    removed_live       \* a table left the registry while a connection of it was live

sessionVars == <<config, bootstrap_client, on_created, on_ended, result, process,
          terminate_calls, endpoint, session_count, state, capabilities,
          client, transport, channel, handlers, handlers_at_initialize, sent,
          pending, exit_calls, init_outcome, init_response, shutdown_outcome,
          shutdown_results, created_calls, ended_calls, end_calls, raised,
          message_requests, responses>>

winVars == <<registry, window_valid, window_folder, window_views,
             project_path, table, restarting, conns, documents, doc_sessions,
             vetoed, on_start_calls, initialized, removed_live>>

vars == <<sessionVars, winVars>>

msgVars == <<message_requests, responses>>
inputVars == <<config, bootstrap_client, on_created, on_ended>>
createVars == <<result, process, terminate_calls, endpoint, session_count>>

(* ------------------------------------------------------------------ *)
(* Pure helpers                                                        *)
(* ------------------------------------------------------------------ *)

\* Python truthiness of a list
Truthy(list) == Len(list) > 0

\* dict.get(key, default)
DictGet(dict, key, default) == IF key \in DOMAIN dict THEN dict[key] ELSE default

\* Session.has_capability
has_capability(capability) ==
    capability \in DOMAIN capabilities /\ capabilities[capability] # "False"

\* Session.get_capability
get_capability(capability) == DictGet(capabilities, capability, "None")

\* create_session with the last branch constructing a Session around the
\* absent bootstrap client
create_session_unchecked(cfg, bootstrap, process_ok, transport_ok, terminate_raises) ==
    IF Truthy(cfg.binary_args)
    THEN IF process_ok
         THEN IF cfg.tcp_port
              THEN IF transport_ok
                   THEN [session |-> TRUE, transport |-> "tcp",
                         process |-> "running", terminate |-> 0,
                         endpoint |-> "connected"]
                   ELSE [session |-> FALSE, transport |-> "None",
                         process |-> IF terminate_raises THEN "running"
                                     ELSE "terminated",
                         terminate |-> 1, endpoint |-> "failed"]
              ELSE [session |-> TRUE, transport |-> "stdio",
                    process |-> "running", terminate |-> 0,
                    endpoint |-> "not_tried"]
         ELSE [session |-> FALSE, transport |-> "None",
               process |-> "none", terminate |-> 0, endpoint |-> "not_tried"]
    ELSE IF cfg.tcp_port
         THEN [session |-> TRUE,
               transport |-> IF transport_ok THEN "tcp" ELSE "None",
               process |-> "none", terminate |-> 0,
               endpoint |-> IF transport_ok THEN "connected" ELSE "failed"]
         ELSE [session |-> TRUE,
               transport |-> IF bootstrap THEN "bootstrap" ELSE "None",
               process |-> "none", terminate |-> 0, endpoint |-> "not_tried"]

\* create_session leaving the spawned process running when the endpoint
\* connection fails
create_session_no_terminate(cfg, bootstrap, process_ok, transport_ok, terminate_raises) ==
    IF Truthy(cfg.binary_args)
    THEN IF process_ok
         THEN IF cfg.tcp_port
              THEN IF transport_ok
                   THEN [session |-> TRUE, transport |-> "tcp",
                         process |-> "running", terminate |-> 0,
                         endpoint |-> "connected"]
                   ELSE [session |-> FALSE, transport |-> "None",
                         process |-> "running", terminate |-> 0,
                         endpoint |-> "failed"]
              ELSE [session |-> TRUE, transport |-> "stdio",
                    process |-> "running", terminate |-> 0,
                    endpoint |-> "not_tried"]
         ELSE [session |-> FALSE, transport |-> "None",
               process |-> "none", terminate |-> 0, endpoint |-> "not_tried"]
    ELSE IF cfg.tcp_port
         THEN [session |-> TRUE,
               transport |-> IF transport_ok THEN "tcp" ELSE "None",
               process |-> "none", terminate |-> 0,
               endpoint |-> IF transport_ok THEN "connected" ELSE "failed"]
         ELSE IF bootstrap
              THEN [session |-> TRUE, transport |-> "bootstrap",
                    process |-> "none", terminate |-> 0,
                    endpoint |-> "not_tried"]
              ELSE [session |-> FALSE, transport |-> "None",
                    process |-> "none", terminate |-> 0,
                    endpoint |-> "not_tried"]

\* create_session: the branch taken and what it leaves behind, given the
\* collaborators' outcomes (start_server gave a process, start_tcp_transport
\* gave a transport, process.terminate raised)
create_session(cfg, bootstrap, process_ok, transport_ok, terminate_raises) ==
    IF Truthy(cfg.binary_args)
    THEN IF process_ok
         THEN IF cfg.tcp_port
              THEN IF transport_ok
                   THEN [session |-> TRUE, transport |-> "tcp",
                         process |-> "running", terminate |-> 0,
                         endpoint |-> "connected"]
                   ELSE \* try to terminate the process
                        [session |-> FALSE, transport |-> "None",
                         process |-> IF terminate_raises THEN "running"
                                     ELSE "terminated",
                         terminate |-> 1, endpoint |-> "failed"]
              ELSE [session |-> TRUE, transport |-> "stdio",
                    process |-> "running", terminate |-> 0,
                    endpoint |-> "not_tried"]
         ELSE [session |-> FALSE, transport |-> "None",
               process |-> "none", terminate |-> 0, endpoint |-> "not_tried"]
    ELSE IF cfg.tcp_port
         THEN \* the transport is handed to Client unchecked
              [session |-> TRUE,
               transport |-> IF transport_ok THEN "tcp" ELSE "None",
               process |-> "none", terminate |-> 0,
               endpoint |-> IF transport_ok THEN "connected" ELSE "failed"]
         ELSE IF bootstrap
              THEN [session |-> TRUE, transport |-> "bootstrap",
                    process |-> "none", terminate |-> 0,
                    endpoint |-> "not_tried"]
              ELSE \* "No way to start session"
                   [session |-> FALSE, transport |-> "None",
                    process |-> "none", terminate |-> 0,
                    endpoint |-> "not_tried"]

(* ------------------------------------------------------------------ *)
(* The channel (rpc.Client)                                            *)
(* ------------------------------------------------------------------ *)

\* Client.send_request(request, on_success, on_error)
send_request(method, success_handler, error_handler) ==
    /\ sent' = Append(sent, method)
    /\ pending' = pending \cup {[id |-> Len(sent) + 1, method |-> method,
                                 on_success |-> success_handler,
                                 on_error |-> error_handler]}

\* Client.exit() leaving the channel open for answers
client_exit_keeps_channel ==
    /\ exit_calls' = exit_calls + 1
    /\ UNCHANGED channel

\* Client.exit(): the channel is closed
client_exit ==
    /\ exit_calls' = exit_calls + 1
    /\ channel' = "closed"

(* ------------------------------------------------------------------ *)
(* Session                                                             *)
(* ------------------------------------------------------------------ *)

\* Session.__setup_special_notification_and_request_handlers
setup_special_notification_and_request_handlers ==
    handlers' = handlers \cup
        {"window/logMessage", "window/showMessage", "window/showMessageRequest"}

\* __initialize passing the result handler as the error callback too
initialize_with_error_callback ==
    send_request("initialize", "handle_initialize_result",
                 "handle_initialize_result")

\* Session.__initialize: the initialize request has no error callback
initialize ==
    send_request("initialize", "handle_initialize_result", "None")

\* __init__ sending the initialize request before it installs the handlers
SessionInit_initialize_first(t) ==
    /\ session_count' = session_count + 1
    /\ state' = "STARTING"
    /\ capabilities' = EmptyDict
    /\ client' = "Client"
    /\ transport' = t
    /\ channel' = "open"
    /\ initialize
    /\ handlers_at_initialize' = handlers
    /\ setup_special_notification_and_request_handlers

\* Session.__init__: the handlers are installed, then initialize is sent
SessionInit(t) ==
    /\ session_count' = session_count + 1
    /\ state' = "STARTING"
    /\ capabilities' = EmptyDict
    /\ client' = "Client"
    /\ transport' = t
    /\ channel' = "open"
    /\ setup_special_notification_and_request_handlers
    /\ initialize
    /\ handlers_at_initialize' = handlers'

\* __handle_initialize_result invoking on_created before the assignments
handle_initialize_result_callback_first(res) ==
    /\ created_calls' =
          IF on_created
          THEN Append(created_calls,
                      [state |-> state, capabilities |-> capabilities])
          ELSE created_calls
    /\ state' = "READY"
    /\ capabilities' = DictGet(res, "capabilities", EmptyDict)
    /\ UNCHANGED <<client, channel, exit_calls, shutdown_results, ended_calls,
                   raised>>

\* __handle_initialize_result storing the capabilities without entering Ready
handle_initialize_result_keeps_state(res) ==
    /\ UNCHANGED state
    /\ capabilities' = DictGet(res, "capabilities", EmptyDict)
    /\ created_calls' =
          IF on_created
          THEN Append(created_calls,
                      [state |-> state', capabilities |-> capabilities'])
          ELSE created_calls
    /\ UNCHANGED <<client, channel, exit_calls, shutdown_results, ended_calls,
                   raised>>

\* Session.__handle_initialize_result
handle_initialize_result(res) ==
    /\ state' = "READY"
    /\ capabilities' = DictGet(res, "capabilities", EmptyDict)
    /\ created_calls' =
          IF on_created
          THEN Append(created_calls,
                      [state |-> state', capabilities |-> capabilities'])
          ELSE created_calls
    /\ UNCHANGED <<client, channel, exit_calls, shutdown_results, ended_calls,
                   raised>>

\* __handle_shutdown_result that neither exits nor releases the client
handle_shutdown_result_keeps_client ==
    /\ capabilities' = EmptyDict
    /\ ended_calls' =
          IF on_ended THEN Append(ended_calls, config.name) ELSE ended_calls
    /\ shutdown_results' = shutdown_results + 1
    /\ UNCHANGED <<state, client, channel, exit_calls, created_calls, raised>>

\* __handle_shutdown_result that does not clear the capabilities
handle_shutdown_result_keeps_capabilities ==
    IF client = "None"
    THEN /\ raised' = raised + 1
         /\ UNCHANGED <<state, capabilities, client, channel, exit_calls,
                        shutdown_results, created_calls, ended_calls>>
    ELSE /\ client_exit
         /\ client' = "None"
         /\ ended_calls' =
               IF on_ended THEN Append(ended_calls, config.name)
               ELSE ended_calls
         /\ shutdown_results' = shutdown_results + 1
         /\ UNCHANGED <<state, capabilities, created_calls, raised>>

\* __handle_shutdown_result that releases the client without client.exit()
handle_shutdown_result_without_exit ==
    IF client = "None"
    THEN /\ raised' = raised + 1
         /\ UNCHANGED <<state, capabilities, client, channel, exit_calls,
                        shutdown_results, created_calls, ended_calls>>
    ELSE /\ client' = "None"
         /\ capabilities' = EmptyDict
         /\ ended_calls' =
               IF on_ended THEN Append(ended_calls, config.name)
               ELSE ended_calls
         /\ shutdown_results' = shutdown_results + 1
         /\ UNCHANGED <<state, channel, exit_calls, created_calls, raised>>

\* Session.__handle_shutdown_result
handle_shutdown_result ==
    IF client = "None"
    THEN \* self.client.exit() on None raises AttributeError
         /\ raised' = raised + 1
         /\ UNCHANGED <<state, capabilities, client, channel, exit_calls,
                        shutdown_results, created_calls, ended_calls>>
    ELSE /\ client_exit
         /\ client' = "None"
         /\ capabilities' = EmptyDict
         /\ ended_calls' =
               IF on_ended THEN Append(ended_calls, config.name)
               ELSE ended_calls
         /\ shutdown_results' = shutdown_results + 1
         /\ UNCHANGED <<state, created_calls, raised>>

\* end sending the shutdown request without an error callback
end_request_without_error_callback ==
    send_request("shutdown", "handle_shutdown_result", "None")

\* Session.end: both callbacks of the shutdown request are the shutdown handler
end_request ==
    send_request("shutdown", "handle_shutdown_result", "handle_shutdown_result")

\* end that does not record the Stopping state
end_keeps_state ==
    /\ UNCHANGED state
    /\ IF client = "None"
       THEN /\ raised' = raised + 1
            /\ UNCHANGED <<sent, pending>>
       ELSE /\ end_request
            /\ UNCHANGED raised

\* Session.end
end ==
    /\ state' = "STOPPING"
    /\ IF client = "None"
       THEN \* self.client.send_request on None raises AttributeError
            /\ raised' = raised + 1
            /\ UNCHANGED <<sent, pending>>
       ELSE /\ end_request
            /\ UNCHANGED raised

\* titles = list(action.get("title") for action in actions)
Titles(actions) == [i \in 1..Len(actions) |-> actions[i].title]

\* Python indexing of a list: 0-based, a negative index counts from the end
PyIndex(list, index) ==
    IF index >= 0 THEN list[index + 1] ELSE list[Len(list) + index + 1]

\* Session.__handle_show_message_request: a request without actions is
\* dropped, otherwise the titles are shown in a quick panel
handle_show_message_request(params, request_id) ==
    LET actions == DictGet(params, "actions", <<>>)
    IN  message_requests' = Append(message_requests,
            [titles |-> Titles(actions),
             status |-> IF ~Truthy(actions) THEN "no_actions" ELSE "prompt",
             index |-> -1,
             client |-> client])

\* send_user_choice without the check for a dismissed panel
send_user_choice_no_cancel_check(request_id, index) ==
    /\ message_requests' = [message_requests EXCEPT ![request_id] =
            [@ EXCEPT !.status = IF index = -1 THEN "dismissed" ELSE "picked",
                      !.index = index, !.client = client]]
    /\ IF client = "None"
       THEN /\ raised' = raised + 1
            /\ UNCHANGED responses
       ELSE /\ responses' = Append(responses,
                   [request_id |-> request_id,
                    title |-> PyIndex(message_requests[request_id].titles,
                                      index)])
            /\ UNCHANGED raised

\* send_user_choice (the quick panel's callback) for the request request_id
send_user_choice(request_id, index) ==
    /\ message_requests' = [message_requests EXCEPT ![request_id] =
            [@ EXCEPT !.status = IF index = -1 THEN "dismissed" ELSE "picked",
                      !.index = index, !.client = client]]
    /\ IF index = -1
       THEN UNCHANGED <<responses, raised>>
       ELSE IF client = "None"
       THEN \* self.client.send_response on None raises AttributeError
            /\ raised' = raised + 1
            /\ UNCHANGED responses
       ELSE /\ responses' = Append(responses,
                   [request_id |-> request_id,
                    title |-> PyIndex(message_requests[request_id].titles,
                                      index)])
            /\ UNCHANGED raised

(* ------------------------------------------------------------------ *)
(* Actions                                                             *)
(* ------------------------------------------------------------------ *)

\* no window has been looked up yet
WindowIdle ==
    /\ registry = {}
    /\ window_valid = TRUE
    /\ window_folder = "/project"
    /\ window_views = {}
    /\ project_path = "/project"
    /\ table = [c \in ConfigNames |-> 0]
    /\ restarting = FALSE
    /\ conns = <<>>
    /\ documents = <<>>
    /\ doc_sessions = {}
    /\ vetoed = {}
    /\ on_start_calls = {}
    /\ initialized = {}
    /\ removed_live = FALSE

Init ==
    /\ WindowIdle
    /\ config \in Configs
    /\ bootstrap_client \in BOOLEAN
    /\ on_created \in BOOLEAN
    /\ on_ended \in BOOLEAN
    /\ result = "not_called"
    /\ process = "none"
    /\ terminate_calls = 0
    /\ endpoint = "not_tried"
    /\ session_count = 0
    /\ state = "None"
    /\ capabilities = EmptyDict
    /\ client = "None"
    /\ transport = "None"
    /\ channel = "closed"
    /\ handlers = {}
    /\ handlers_at_initialize = {}
    /\ sent = <<>>
    /\ pending = {}
    /\ exit_calls = 0
    /\ init_outcome = "none"
    /\ init_response = EmptyDict
    /\ shutdown_outcome = "none"
    /\ shutdown_results = 0
    /\ created_calls = <<>>
    /\ ended_calls = <<>>
    /\ end_calls = 0
    /\ raised = 0
    /\ message_requests = <<>>
    /\ responses = <<>>

\* create_session(config, ..., on_created, on_ended, bootstrap_client)
CreateSession ==
    /\ result = "not_called"
    /\ \E process_ok, transport_ok, terminate_raises \in BOOLEAN :
         LET out == create_session(config, bootstrap_client, process_ok,
                                   transport_ok, terminate_raises)
         IN  /\ process' = out.process
             /\ terminate_calls' = terminate_calls + out.terminate
             /\ endpoint' = out.endpoint
             /\ IF out.session
                THEN /\ result' = "Session"
                     /\ SessionInit(out.transport)
                ELSE /\ result' = "None"
                     /\ UNCHANGED <<session_count, state, capabilities, client,
                                    transport, channel, handlers,
                                    handlers_at_initialize, sent, pending>>
    /\ UNCHANGED <<inputVars, exit_calls, init_outcome, init_response,
                   shutdown_outcome, shutdown_results, created_calls,
                   ended_calls, end_calls, raised, msgVars, winVars>>

\* the owner calls Session.end()
End ==
    /\ result = "Session"
    /\ end_calls < MaxEndCalls
    /\ end_calls' = end_calls + 1
    /\ end
    /\ UNCHANGED <<inputVars, createVars, capabilities, client, transport,
                   channel, handlers, handlers_at_initialize, exit_calls,
                   init_outcome, init_response,
                   shutdown_outcome, shutdown_results, created_calls,
                   ended_calls, msgVars, winVars>>

\* the channel can deliver an answer: it has a transport, and it is open
CanAnswer == channel = "open" /\ transport # "None"

\* Client: the answer to req arrives (kind "success" with a result res, or
\* "error") and the callback the request was sent with for that kind runs,
\* when there is one; a channel closed by the callback delivers nothing more
Deliver(req, kind, res) ==
    LET handler == IF kind = "success" THEN req.on_success ELSE req.on_error
    IN  /\ IF handler = "handle_initialize_result"
           THEN handle_initialize_result(res)
           ELSE IF handler = "handle_shutdown_result"
           THEN handle_shutdown_result
           ELSE UNCHANGED <<state, capabilities, client, channel, exit_calls,
                            shutdown_results, created_calls, ended_calls,
                            raised>>
        /\ pending' = IF channel' = "open" THEN pending \ {req} ELSE {}
        /\ init_outcome' =
              IF req.method = "initialize" THEN kind ELSE init_outcome
        /\ init_response' =
              IF req.method = "initialize" /\ kind = "success"
              THEN res ELSE init_response
        /\ shutdown_outcome' =
              IF req.method = "shutdown" THEN kind ELSE shutdown_outcome
        /\ UNCHANGED <<inputVars, createVars, transport, handlers,
                       handlers_at_initialize, sent, end_calls, msgVars,
                       winVars>>

\* the results the server may answer a request with
ResultsFor(req) ==
    IF req.method = "initialize" THEN InitializeResults ELSE {EmptyDict}

\* the server answers a request with a result
ResponseSuccess ==
    /\ CanAnswer
    /\ \E req \in pending : \E res \in ResultsFor(req) :
         Deliver(req, "success", res)

\* the server answers a request with an error
ResponseError ==
    /\ CanAnswer
    /\ \E req \in pending : Deliver(req, "error", EmptyDict)

\* the transport closes under the session: outstanding requests stay unanswered
TransportClosed ==
    /\ result = "Session"
    /\ channel = "open"
    /\ channel' = "closed"
    /\ pending' = {}
    /\ init_outcome' =
          IF \E req \in pending : req.method = "initialize"
          THEN "closed" ELSE init_outcome
    /\ UNCHANGED <<inputVars, createVars, state, capabilities, client,
                   transport, handlers, handlers_at_initialize, sent,
                   exit_calls, init_response,
                   shutdown_outcome, shutdown_results, created_calls,
                   ended_calls, end_calls, raised, msgVars, winVars>>

\* what the routing of a server-to-client message leaves alone
routedUnchanged ==
    <<inputVars, createVars, state, capabilities, client, transport, channel,
      handlers, handlers_at_initialize, sent, pending, exit_calls,
      init_outcome, init_response, shutdown_outcome, shutdown_results,
      created_calls, ended_calls, end_calls, winVars>>

\* the server sends a window/showMessageRequest; the client routes it to the
\* handler registered for the method
ShowMessageRequest ==
    /\ CanAnswer
    /\ "window/showMessageRequest" \in handlers
    /\ Len(message_requests) < MaxMessageRequests
    /\ \E params \in MessageRequestParams :
         handle_show_message_request(params, Len(message_requests) + 1)
    /\ UNCHANGED <<routedUnchanged, raised, responses>>

\* the user picks an entry of an open quick panel, or dismisses it (-1)
UserChoice ==
    /\ \E request_id \in 1..Len(message_requests) :
         /\ message_requests[request_id].status = "prompt"
         /\ \E index \in -1..(Len(message_requests[request_id].titles) - 1) :
              send_user_choice(request_id, index)
    /\ UNCHANGED routedUnchanged

Next ==
    \/ CreateSession
    \/ End
    \/ ResponseSuccess
    \/ ResponseError
    \/ TransportClosed
    \/ ShowMessageRequest
    \/ UserChoice

Spec == Init /\ [][Next]_vars

\* the shutdown request is answered, with a result or with an error
ShutdownAnswered ==
    /\ CanAnswer
    /\ \E req \in pending :
         /\ req.method = "shutdown"
         /\ \E kind \in {"success", "error"} : Deliver(req, kind, EmptyDict)

\* the behaviours in which the transport stays up and eventually answers
\* every shutdown request
LiveNext ==
    \/ CreateSession
    \/ End
    \/ ResponseSuccess
    \/ ResponseError
    \/ ShowMessageRequest
    \/ UserChoice

LiveSpec == Init /\ [][LiveNext]_vars /\ WF_vars(ShutdownAnswered)

(* ------------------------------------------------------------------ *)
(* The window session table and the window registry                    *)
(* ------------------------------------------------------------------ *)

RECURSIVE SetToSeq(_)
\* the elements of a finite set, in the order a loop visits them
SetToSeq(S) ==
    IF S = {} THEN <<>>
    ELSE LET x == CHOOSE y \in S : TRUE IN <<x>> \o SetToSeq(S \ {x})

\* a Session as its owner sees it right after construction
NewConnection(c) ==
    [config |-> c, state |-> "STARTING", init |-> "pending",
     shutdown |-> "none"]

\* Session.end() as its owner sees it: Stopping, a shutdown request pending
ConnEnd(conn) ==
    [conn EXCEPT !.state = "STOPPING",
                 !.shutdown = IF @ = "done" THEN "done" ELSE "pending"]

\* the connection has not completed its shutdown
Live(conn) == conn.shutdown # "done"

\* WindowManager.get_session: the connection id held for a configuration
get_session(config_name) == table[config_name]

\* the configurations that hold a connection in a table
Held(tbl) == {c \in ConfigNames : tbl[c] # 0}

\* end every connection of the table
end_sessions(tbl, cs) ==
    [i \in DOMAIN cs |->
        IF \E c \in Held(tbl) : tbl[c] = i THEN ConnEnd(cs[i]) ELSE cs[i]]

\* every configuration applicable to some of the documents, held or not
Startable_ignoring_held(tbl, docs) == UNION {DocConfigs(d) : d \in docs}

\* the configurations applicable to some of the documents and not yet held
Startable(tbl, docs) == (UNION {DocConfigs(d) : d \in docs}) \ Held(tbl)

\* the start path launching without regard to the answer of on_start
LaunchChoices_ignoring_veto(candidates, cs) ==
    {L \in SUBSET candidates : Len(cs) + Cardinality(L) <= MaxConnections}

\* the sets of configurations the connection factory may produce a
\* connection for: on_start must allow each, and any launch may fail
LaunchChoices(candidates, cs) ==
    {L \in SUBSET (candidates \ vetoed) :
        Len(cs) + Cardinality(L) <= MaxConnections}

\* the connections after those for the configurations in L have been started
StartedConns(cs, L) ==
    LET order == SetToSeq(L)
    IN  cs \o [i \in 1..Len(order) |-> NewConnection(order[i])]

\* the table after the connections for the configurations in L were started
StartedTable(tbl, cs, L) ==
    LET order == SetToSeq(L)
    IN  [c \in ConfigNames |->
            IF c \in L
            THEN Len(cs) + (CHOOSE i \in 1..Len(order) : order[i] = c)
            ELSE tbl[c]]

\* the document tracker's handle_view_opened for each of the documents: a
\* document is tracked once, and only when it has a file name
RegisterDocs(tracked, docs) ==
    LET known == {tracked[i] : i \in DOMAIN tracked}
    IN  tracked \o SetToSeq({d \in docs : HasFileName(d) /\ d \notin known})

\* the state nothing but the session model changes
windowEnv == <<window_valid, window_folder, vetoed>>

\* WindowRegistry.lookup for a window that has no table yet
Lookup ==
    /\ registry = {}
    /\ window_valid
    /\ registry' = Windows
    /\ table' = [c \in ConfigNames |-> 0]
    /\ project_path' = window_folder
    /\ restarting' = FALSE
    /\ documents' = <<>>
    /\ doc_sessions' = {}
    /\ UNCHANGED <<sessionVars, windowEnv, window_views, conns,
                   on_start_calls, initialized, removed_live>>

\* WindowManager.start_active_views on the table tbl with connections cs:
\* start what the open documents need and is not held, register the documents
start_active_views(tbl, cs) ==
    \E L \in LaunchChoices(Startable(tbl, window_views), cs) :
        /\ on_start_calls' = on_start_calls \cup Startable(tbl, window_views)
        /\ conns' = StartedConns(cs, L)
        /\ table' = StartedTable(tbl, cs, L)
        /\ documents' = RegisterDocs(documents, window_views)

StartActiveViews ==
    /\ registry # {}
    /\ window_valid
    /\ start_active_views(table, conns)
    /\ UNCHANGED <<sessionVars, windowEnv, registry, window_views,
                   project_path, restarting, doc_sessions, initialized,
                   removed_live>>

\* activate_view without the project path comparison
activate_view_ignoring_path(doc) ==
    /\ \E L \in LaunchChoices(Startable(table, {doc}), conns) :
         /\ on_start_calls' = on_start_calls \cup Startable(table, {doc})
         /\ conns' = StartedConns(conns, L)
         /\ table' = StartedTable(table, conns, L)
    /\ documents' = RegisterDocs(documents, {doc})
    /\ UNCHANGED project_path

\* WindowManager.activate_view: a changed project path ends the window's
\* connections; otherwise the document's configurations are started and the
\* document is registered
activate_view(doc) ==
    IF window_folder # project_path
    THEN /\ conns' = end_sessions(table, conns)
         /\ project_path' = window_folder
         /\ UNCHANGED <<table, documents, on_start_calls>>
    ELSE /\ \E L \in LaunchChoices(Startable(table, {doc}), conns) :
              /\ on_start_calls' = on_start_calls \cup Startable(table, {doc})
              /\ conns' = StartedConns(conns, L)
              /\ table' = StartedTable(table, conns, L)
         /\ documents' = RegisterDocs(documents, {doc})
         /\ UNCHANGED project_path

\* the host activates the document doc of the window
ActivateViewOf(doc) ==
    /\ registry # {}
    /\ window_valid
    /\ window_views' = window_views \cup {doc}
    /\ activate_view(doc)
    /\ UNCHANGED <<sessionVars, windowEnv, registry, restarting,
                   doc_sessions, initialized, removed_live>>

ActivateView == \E doc \in Docs : ActivateViewOf(doc)

\* the host switches the window to another project folder
SetFolders ==
    /\ window_valid
    /\ \E path \in ProjectPaths \ {window_folder} : window_folder' = path
    /\ UNCHANGED <<sessionVars, registry, window_valid, vetoed, window_views,
                   project_path, table, restarting, conns, documents,
                   doc_sessions, on_start_calls, initialized, removed_live>>

\* restart_sessions starting again without waiting for the connections to end
restart_sessions_at_once ==
    /\ start_active_views([c \in ConfigNames |-> 0],
                          end_sessions(table, conns))
    /\ UNCHANGED restarting

\* WindowManager.restart_sessions: end every connection, then start again for
\* the open documents once the last one has ended (at once when none is held)
restart_sessions ==
    IF Held(table) = {}
    THEN /\ start_active_views(table, conns)
         /\ UNCHANGED restarting
    ELSE /\ conns' = end_sessions(table, conns)
         /\ restarting' = TRUE
         /\ UNCHANGED <<table, documents, on_start_calls>>

RestartSessions ==
    /\ registry # {}
    /\ window_valid
    /\ restart_sessions
    /\ UNCHANGED <<sessionVars, windowEnv, registry, window_views,
                   project_path, doc_sessions, initialized, removed_live>>

\* crash recovery: the connection factory is used without asking on_start
\* again, and the launch may fail
RelaunchChoices(candidates, cs) ==
    {L \in SUBSET candidates : Len(cs) + Cardinality(L) <= MaxConnections}

\* the crash handler replacing the connection without ending the old one
handle_server_crash_without_end(c) ==
    LET cleared == [table EXCEPT ![c] = 0]
        wanted == {c} \cap Startable(cleared, window_views)
    IN  /\ \E L \in RelaunchChoices(wanted, conns) :
             /\ conns' = StartedConns(conns, L)
             /\ table' = StartedTable(cleared, conns, L)
        /\ doc_sessions' = doc_sessions \ {c}

\* WindowManager._handle_server_crash: end the connection of the
\* configuration, remove it, and start the configuration again when an open
\* document needs it; on_start is not asked again
handle_server_crash(c) ==
    LET ended == [conns EXCEPT ![table[c]] = ConnEnd(@)]
        cleared == [table EXCEPT ![c] = 0]
        wanted == {c} \cap Startable(cleared, window_views)
    IN  /\ \E L \in RelaunchChoices(wanted, ended) :
             /\ conns' = StartedConns(ended, L)
             /\ table' = StartedTable(cleared, ended, L)
        /\ doc_sessions' = doc_sessions \ {c}

HandleServerCrash ==
    /\ registry # {}
    /\ window_valid
    /\ \E c \in Held(table) : handle_server_crash(c)
    /\ UNCHANGED <<sessionVars, windowEnv, registry, window_views,
                   project_path, restarting, documents, on_start_calls,
                   initialized, removed_live>>

\* the host closes the window
CloseWindow ==
    /\ window_valid
    /\ window_valid' = FALSE
    /\ UNCHANGED <<sessionVars, registry, window_folder, vetoed, window_views,
                   project_path, table, restarting, conns, documents,
                   doc_sessions, on_start_calls, initialized, removed_live>>

\* a table leaves the registry: note whether one of its connections is live
RemoveTable(tbl, cs) ==
    /\ registry' = {}
    /\ removed_live' =
          (removed_live \/ \E c \in Held(tbl) : Live(cs[tbl[c]]))

\* the registry dropping the table of a closed window at once
handle_window_closed_at_once ==
    /\ conns' = end_sessions(table, conns)
    /\ restarting' = FALSE
    /\ RemoveTable(table, conns')

\* window-closed handling: end every connection of the window; the table
\* leaves the registry once none is held (idempotent)
handle_window_closed ==
    /\ conns' = end_sessions(table, conns)
    /\ restarting' = FALSE
    /\ IF Held(table) = {}
       THEN RemoveTable(table, conns')
       ELSE UNCHANGED <<registry, removed_live>>

\* the "document closed" signal: the window's validity is re-evaluated
ViewClosed ==
    /\ registry # {}
    /\ \E doc \in Docs : window_views' = window_views \ {doc}
    /\ IF window_valid
       THEN UNCHANGED <<registry, restarting, conns, removed_live>>
       ELSE handle_window_closed
    /\ UNCHANGED <<sessionVars, windowEnv, project_path, table, documents,
                   doc_sessions, on_start_calls, initialized>>

\* the table holds connection i (the callbacks of any other are ignored)
Holds(i) == registry # {} /\ table[conns[i].config] = i

\* WindowManager's on_created callback: the ready connection is given to the
\* document tracker and to the dispatcher's on_initialized
handle_session_started(i) ==
    /\ doc_sessions' = doc_sessions \cup {conns[i].config}
    /\ initialized' = initialized \cup {<<conns[i].config, i>>}

\* the initialize request of connection i is answered with a result
SessionStarted ==
    /\ \E i \in DOMAIN conns :
         /\ conns[i].init = "pending"
         /\ Live(conns[i])
         /\ conns' = [conns EXCEPT ![i].state = "READY", ![i].init = "success"]
         /\ IF Holds(i)
            THEN handle_session_started(i)
            ELSE UNCHANGED <<doc_sessions, initialized>>
    /\ UNCHANGED <<sessionVars, windowEnv, registry, window_views,
                   project_path, table, restarting, documents,
                   on_start_calls, removed_live>>

\* the initialize request of connection i is answered with an error
SessionStartFailed ==
    /\ \E i \in DOMAIN conns :
         /\ conns[i].init = "pending"
         /\ Live(conns[i])
         /\ conns' = [conns EXCEPT ![i].init = "error"]
    /\ UNCHANGED <<sessionVars, windowEnv, registry, window_views,
                   project_path, table, restarting, documents, doc_sessions,
                   on_start_calls, initialized, removed_live>>

\* WindowManager's on_ended callback for the held connection i: it is removed
\* from the table and the tracker; when it was the last one a pending restart
\* starts the open documents again, and a closed window's table is dropped
handle_session_ended(i, cs) ==
    LET cleared == [table EXCEPT ![cs[i].config] = 0]
    IN  /\ doc_sessions' = doc_sessions \ {cs[i].config}
        /\ IF Held(cleared) # {}
           THEN /\ table' = cleared
                /\ conns' = cs
                /\ UNCHANGED <<registry, restarting, documents,
                               on_start_calls, removed_live>>
           ELSE IF restarting
           THEN /\ start_active_views(cleared, cs)
                /\ restarting' = FALSE
                /\ UNCHANGED <<registry, removed_live>>
           ELSE IF ~window_valid
           THEN /\ table' = cleared
                /\ conns' = cs
                /\ RemoveTable(cleared, cs)
                /\ UNCHANGED <<restarting, documents, on_start_calls>>
           ELSE /\ table' = cleared
                /\ conns' = cs
                /\ UNCHANGED <<registry, restarting, documents,
                               on_start_calls, removed_live>>

\* the shutdown request of connection i is answered (result or error)
SessionEnded ==
    /\ \E i \in DOMAIN conns :
         /\ conns[i].shutdown = "pending"
         /\ LET cs == [conns EXCEPT ![i].shutdown = "done",
                                    ![i].init = IF @ = "pending"
                                                THEN "dropped" ELSE @]
            IN  IF Holds(i)
                THEN handle_session_ended(i, cs)
                ELSE /\ conns' = cs
                     /\ UNCHANGED <<registry, table, restarting, documents,
                                    doc_sessions, on_start_calls,
                                    removed_live>>
    /\ UNCHANGED <<sessionVars, windowEnv, window_views, project_path,
                   initialized>>

\* the session model at rest while the window model runs
SessionIdle ==
    /\ config = [name |-> "test", binary_args |-> <<>>, tcp_port |-> FALSE]
    /\ bootstrap_client = TRUE
    /\ on_created = TRUE
    /\ on_ended = TRUE
    /\ result = "not_called"
    /\ process = "none"
    /\ terminate_calls = 0
    /\ endpoint = "not_tried"
    /\ session_count = 0
    /\ state = "None"
    /\ capabilities = EmptyDict
    /\ client = "None"
    /\ transport = "None"
    /\ channel = "closed"
    /\ handlers = {}
    /\ handlers_at_initialize = {}
    /\ sent = <<>>
    /\ pending = {}
    /\ exit_calls = 0
    /\ init_outcome = "none"
    /\ init_response = EmptyDict
    /\ shutdown_outcome = "none"
    /\ shutdown_results = 0
    /\ created_calls = <<>>
    /\ ended_calls = <<>>
    /\ end_calls = 0
    /\ raised = 0
    /\ message_requests = <<>>
    /\ responses = <<>>

WinInit ==
    /\ SessionIdle
    /\ registry = {}
    /\ window_valid = TRUE
    /\ window_folder = "/project"
    /\ window_views \in SUBSET Docs
    /\ project_path = "/project"
    /\ table = [c \in ConfigNames |-> 0]
    /\ restarting = FALSE
    /\ conns = <<>>
    /\ documents = <<>>
    /\ doc_sessions = {}
    /\ vetoed \in {{}, ConfigNames}
    /\ on_start_calls = {}
    /\ initialized = {}
    /\ removed_live = FALSE

WinNext ==
    \/ Lookup
    \/ StartActiveViews
    \/ ActivateView
    \/ SetFolders
    \/ RestartSessions
    \/ HandleServerCrash
    \/ CloseWindow
    \/ ViewClosed
    \/ SessionStarted
    \/ SessionStartFailed
    \/ SessionEnded

WinSpec == WinInit /\ [][WinNext]_vars

(* ------------------------------------------------------------------ *)
(* Properties                                                          *)
(* ------------------------------------------------------------------ *)

\* the capabilities the server advertised in its initialize response
AdvertisedCapabilities == DictGet(init_response, "capabilities", EmptyDict)

\* C1 (as stated): once the shutdown round trip of a session has completed,
\* with a result or with an error, the session's state is Ended.
C1_StateEndedAfterShutdown ==
    shutdown_results > 0 => state = "ENDED"

\* C1 (amended): once the shutdown round trip has completed the state is
\* still Stopping, as end() set it, or Ready when the initialize response
\* arrived after end(); the completion itself assigns no state.
C1_StateLeftAfterShutdown ==
    shutdown_results > 0 => state \in {"STOPPING", "READY"}

C1_Witness ==
    /\ shutdown_outcome = "error"
    /\ shutdown_results = 1
    /\ state = "STOPPING"

\* C2: on_ended is invoked at most once over any sequence of end() calls and
\* shutdown answers; it has been invoked, with the configuration name, exactly
\* when the shutdown round trip has completed (by success or by error).
C2_OnEndedExactlyOnce ==
    /\ Len(ended_calls) <= 1
    /\ shutdown_results = 0 => ended_calls = <<>>
    /\ (on_ended /\ shutdown_results > 0) => ended_calls = <<config.name>>

C2_Witness ==
    /\ on_ended
    /\ end_calls = 2
    /\ Len(sent) = 3
    /\ shutdown_outcome = "error"
    /\ ended_calls = <<config.name>>

\* C3: when the shutdown round trip has completed, by success or by error,
\* the capability table is empty (has_capability false and get_capability
\* absent for every name) and the client has been exited and released.
C3_ReleasedAfterShutdown ==
    shutdown_results > 0 =>
        /\ capabilities = EmptyDict
        /\ \A name \in CapNames :
             ~has_capability(name) /\ get_capability(name) = "None"
        /\ client = "None"
        /\ exit_calls = 1
        /\ channel = "closed"

C3_Witness ==
    /\ shutdown_outcome = "error"
    /\ shutdown_results = 1
    /\ init_outcome = "success"
    /\ AdvertisedCapabilities # EmptyDict
    /\ client = "None"

\* C4 (as stated): the shutdown request is the last request sent on the
\* channel; nothing, not even another shutdown request, is sent after it.
C4_ShutdownIsLastRequest ==
    \A i \in 1..Len(sent) : sent[i] = "shutdown" => i = Len(sent)

\* what C5 takes for granted: the session's channel has a transport to answer
HasTransport == result = "Session" /\ transport # "None"

\* the shutdown has completed locally
ShutdownCompleted ==
    /\ client = "None"
    /\ exit_calls > 0
    /\ on_ended => ended_calls # <<>>

\* C5: every end() call is eventually followed by the local completion of the
\* shutdown (client exited and released, on_ended invoked), provided the
\* transport answers the shutdown request, with a result or with an error.
C5_EndLeadsToCompletion ==
    (end_calls > 0 /\ HasTransport) ~> ShutdownCompleted

C5_Witness ==
    /\ end_calls > 0
    /\ HasTransport
    /\ shutdown_outcome = "error"
    /\ ShutdownCompleted

\* C6: on_created is invoked exactly once per successful initialize response,
\* and the session it is given is already Ready and already holds the
\* capabilities of that response.
C6_ReadyBeforeOnCreated ==
    /\ Len(created_calls) =
          IF on_created /\ init_outcome = "success" THEN 1 ELSE 0
    /\ \A i \in 1..Len(created_calls) :
          /\ created_calls[i].state = "READY"
          /\ created_calls[i].capabilities = AdvertisedCapabilities

C6_Witness ==
    /\ Len(created_calls) = 1
    /\ created_calls[1].state = "READY"
    /\ "hoverProvider" \in DOMAIN created_calls[1].capabilities

\* C7 (as stated): for a session in Ready and every capability name,
\* has_capability(name) holds iff the name is a key of the initialize
\* response's capabilities whose value is not the boolean false.
C7_HasCapabilityWhenReady ==
    state = "READY" =>
        \A name \in CapNames :
            has_capability(name) <=>
                /\ name \in DOMAIN AdvertisedCapabilities
                /\ AdvertisedCapabilities[name] # "False"

\* C8: if the initialize request is answered with an error, or the channel
\* closes before it is answered, the session never enters Ready, its
\* capabilities stay empty and on_created is never invoked.
C8_FailedHandshakeNeverReady ==
    init_outcome \in {"error", "closed"} =>
        /\ state # "READY"
        /\ capabilities = EmptyDict
        /\ created_calls = <<>>

C8_Witness ==
    /\ init_outcome = "error"
    /\ on_created
    /\ state = "STARTING"

\* the call gave create_session nothing to start a session from
NothingToStartFrom ==
    /\ ~Truthy(config.binary_args)
    /\ ~config.tcp_port
    /\ ~bootstrap_client

\* C9: create_session for a configuration with no launch arguments and no TCP
\* port, called without a bootstrap client, returns no session, constructs no
\* Session and sends no request.
C9_NoWayToStart ==
    (result # "not_called" /\ NothingToStartFrom) =>
        /\ result = "None"
        /\ session_count = 0
        /\ state = "None"
        /\ sent = <<>>

C9_Witness ==
    /\ NothingToStartFrom
    /\ result = "None"

\* C10 (as stated): whenever the connection to the configured TCP endpoint
\* cannot be established, with or without launch arguments, create_session
\* returns no session.
C10_NoSessionWithoutEndpoint ==
    endpoint = "failed" => result = "None"

\* the methods Session routes itself
SpecialMethods ==
    {"window/logMessage", "window/showMessage", "window/showMessageRequest"}

\* C17: the handlers for window/logMessage, window/showMessage and
\* window/showMessageRequest are registered when the Session is constructed,
\* before the initialize request goes out, and stay registered whether or
\* not the handshake completes.
C17_HandlersInstalledAtConstruction ==
    result = "Session" =>
        /\ SpecialMethods \subseteq handlers_at_initialize
        /\ SpecialMethods \subseteq handlers

C17_Witness ==
    /\ result = "Session"
    /\ init_outcome = "error"
    /\ sent = <<"initialize">>
    /\ SpecialMethods \subseteq handlers

\* create_session spawned a process for a configuration with a TCP port
SpawnedForEndpoint ==
    /\ Truthy(config.binary_args)
    /\ config.tcp_port
    /\ endpoint # "not_tried"

\* C19: when create_session has spawned a process for a configuration with a
\* TCP port and the endpoint connection fails, terminate is called on the
\* process (an exception from it is swallowed) and no session is returned;
\* when the connection succeeds the process is not terminated.
C19_ProcessTerminatedOnEndpointFailure ==
    SpawnedForEndpoint =>
        /\ endpoint = "failed" =>
              /\ terminate_calls = 1
              /\ result = "None"
              /\ session_count = 0
        /\ endpoint = "connected" =>
              /\ terminate_calls = 0
              /\ process = "running"
              /\ result = "Session"

\* the endpoint failed and terminate raised: the process is left running
C19_Witness ==
    /\ SpawnedForEndpoint
    /\ endpoint = "failed"
    /\ terminate_calls = 1
    /\ process = "running"
    /\ result = "None"

\* C20: a session in Starting has an empty capability table.
C20_StartingHasNoCapabilities ==
    state = "STARTING" => capabilities = EmptyDict

C20_Witness ==
    /\ state = "STARTING"
    /\ init_outcome = "error"
    /\ capabilities = EmptyDict

\* the responses sent for the request request_id
ResponsesTo(request_id) ==
    {i \in 1..Len(responses) : responses[i].request_id = request_id}

WinLiveSpec == WinSpec /\ WF_vars(SessionEnded)

(* ------------------------------------------------------------------ *)
(* Properties of the window session table and the window registry      *)
(* ------------------------------------------------------------------ *)

\* the documents the tracker was told of
Tracked == {documents[i] : i \in DOMAIN documents}

\* the connections a step has started
StartedBy(cs, cs2) == (DOMAIN cs2) \ (DOMAIN cs)

\* C11: a window session table holds at most one connection per
\* configuration name: starting the open documents or activating a document
\* never starts a connection for a configuration the table already holds one
\* for (ready or still starting), every connection it starts becomes the
\* table's entry of its configuration, and an activated document with a file
\* name is registered with the tracker all the same.
C11_OneConnectionPerConfiguration ==
    [][ /\ \/ /\ \A c \in Held(table) : table'[c] = table[c]
              /\ \A i \in StartedBy(conns, conns') :
                    /\ conns'[i].config \notin Held(table)
                    /\ table'[conns'[i].config] = i
           \/ ~(StartActiveViews \/ ActivateView)
        /\ \A doc \in Docs :
             (HasFileName(doc) /\ window_folder = project_path
                /\ doc \notin Tracked') => ~ActivateViewOf(doc)
      ]_vars

\* two documents that need "test" are registered against the one connection
\* started for it, the second while that start was still pending
C11_Witness ==
    /\ {"a.test", "b.test"} \subseteq Tracked
    /\ Len(conns) = 1
    /\ table["test"] = 1
    /\ conns[1].init = "pending"

\* the window is closed and every connection of its table has been ended
WindowClosing ==
    /\ registry # {}
    /\ ~window_valid
    /\ ~restarting
    /\ Held(table) # {}
    /\ \A c \in Held(table) : conns[table[c]].shutdown = "pending"

\* the table has left the registry with no connection in it or in the tracker
TableRemoved ==
    /\ registry = {}
    /\ Held(table) = {}
    /\ doc_sessions = {}

QuickSwitch(doc) == window_folder # project_path /\ ActivateViewOf(doc)

\* the shutdown of the only connection the table holds is answered while no
\* restart is pending
LastHeldEnded ==
    /\ ~restarting
    /\ \E c \in Held(table) :
         /\ Held(table) = {c}
         /\ conns[table[c]].shutdown = "pending"
         /\ conns'[table[c]].shutdown = "done"
    /\ SessionEnded

\* C13: activating a document after the window's project path has changed
\* ends every connection the table holds and caches the new project path; for
\* an unsupported document nothing is started, and once the shutdown of the
\* ended connection is answered the table and the document tracker hold no
\* connection.
C13_QuickSwitchEndsSessions ==
    [][ /\ \A doc \in Docs :
             QuickSwitch(doc) =>
                /\ project_path' = window_folder
                /\ \A c \in Held(table) :
                      /\ conns'[table[c]].state = "STOPPING"
                      /\ conns'[table[c]].shutdown = "pending"
                /\ DocConfigs(doc) = {} =>
                      (StartedBy(conns, conns') = {} /\ table' = table)
        /\ LastHeldEnded => (Held(table') = {} /\ doc_sessions' = {})
      ]_vars

\* the window was switched to "/tmp" with a ready connection, the unsupported
\* document was activated, and the connection has shut down
C13_Witness ==
    /\ registry # {}
    /\ window_valid
    /\ project_path = "/tmp"
    /\ window_folder = "/tmp"
    /\ window_views = {"a.test", "untitled"}
    /\ documents = <<"a.test">>
    /\ Len(conns) = 1
    /\ conns[1] = [config |-> "test", state |-> "STOPPING",
                   init |-> "success", shutdown |-> "done"]
    /\ Held(table) = {}
    /\ doc_sessions = {}

\* no document is tracked twice
RegisteredOnce(tracked) ==
    \A i, j \in DOMAIN tracked : tracked[i] = tracked[j] => i = j

\* the crash handler has run for configuration c
Crashed(c) == table[c] # 0 /\ table'[c] # table[c] /\ HandleServerCrash

\* what the crash handler does to the old connection of c and the documents
CrashEndsOld(c) ==
    /\ conns'[table[c]].state = "STOPPING"
    /\ conns'[table[c]].shutdown # "none"
    /\ c \notin doc_sessions'
    /\ documents' = documents
    /\ RegisteredOnce(documents')

\* the table holds a connection started by this step for c, and only that
\* one was started
CrashRestarted(c) ==
    /\ table'[c] # 0
    /\ StartedBy(conns, conns') = {table'[c]}
    /\ conns'[table'[c]] = NewConnection(c)

Applicable == UNION {DocConfigs(d) : d \in window_views}

\* the step that completes a restart: the last held connection has ended, or
\* restart_sessions found the table empty
RestartDone ==
    \/ restarting /\ ~restarting' /\ SessionEnded
    \/ Held(table) = {} /\ registry # {} /\ RestartSessions

C16_StartGatedInitializedAfterHandshake ==
    /\ \A i \in DOMAIN conns :
          conns[i].config \in on_start_calls \ vetoed
    /\ \A entry \in initialized :
          /\ entry[2] \in DOMAIN conns
          /\ conns[entry[2]].config = entry[1]
          /\ conns[entry[2]].init = "success"
          /\ entry[1] \notin vetoed

\* on_start allowed "test", its connection completed the handshake and
\* on_initialized was invoked for it
C16_Witness ==
    /\ "test" \in on_start_calls
    /\ Len(conns) = 1
    /\ conns[1].init = "success"
    /\ initialized = {<<"test", 1>>}

(* ------------------------------------------------------------------ *)
(* Properties of interleaved initialize and shutdown completions       *)
(* ------------------------------------------------------------------ *)

\* C21 (as stated): the state only moves forward: once end() has been
\* called the session is never in Ready again, in particular not when the
\* initialize response arrives after end() on a session still Starting.
C21_NeverReadyAfterEnd ==
    end_calls > 0 => state # "READY"

\* C22: on_created is never invoked after on_ended has been invoked: once
\* the session was reported ended, no step reports it ready, whatever the
\* order in which the initialize and shutdown requests are answered.
C22_NoCreatedAfterEnded ==
    [][ended_calls # <<>> => created_calls' = created_calls]_vars

\* the shutdown request was answered while the initialize request was still
\* outstanding: the session was reported ended and never reported ready
C22_Witness ==
    /\ on_created
    /\ ended_calls = <<config.name>>
    /\ init_outcome = "none"
    /\ created_calls = <<>>

\* C23: while the client is absent the capabilities table is empty and no
\* capability is reported; no callback repopulates it after the release.
C23_NoCapabilitiesWithoutClient ==
    client = "None" =>
        /\ capabilities = EmptyDict
        /\ \A name \in CapNames : ~has_capability(name)

\* the server had advertised hoverProvider, and the client has been released
\* by the completed shutdown
C23_Witness ==
    /\ result = "Session"
    /\ client = "None"
    /\ init_outcome = "success"
    /\ "hoverProvider" \in DOMAIN AdvertisedCapabilities
    /\ capabilities = EmptyDict

\* C24 (as stated): no operation of the session uses the client after it
\* was released: no end(), shutdown completion or user choice ever calls a
\* method of the absent client (which raises AttributeError).
C24_NeverUsesAbsentClient ==
    raised = 0

====
